---- MODULE Spec2Model ----
(***************************************************************************)
(* Model of paramonte's RestartFileContents                                *)
(* (src/interface/Python/paramonte/_RestartFileContents.py): the decoder   *)
(* of a ParaDRAM restart file and the plot reset operation.                *)
(*                                                                         *)
(* A text is a sequence of tokens: a label, a numeric literal, the         *)
(* carriage return or the newline.  A line is the sequence of tokens       *)
(* between two newlines.  Python's None is the empty tuple and a set       *)
(* attribute x is the one-element tuple <<x>>.                             *)
(***************************************************************************)
EXTENDS Integers, Sequences, FiniteSets, TLC

VARIABLES file, methodName, pc, outcome,
          ndim, count, contents, df,
          _contents, _lineList, _lineListLen, propNameList,
          rowOffset, skip, icount, istart, iend, irow, fieldNamesDict,
          _plotTypeList, plot,
          scanReads, reads, processed, lastCall

vars == <<file, methodName, pc, outcome, ndim, count, contents, df,
          _contents, _lineList, _lineListLen, propNameList,
          rowOffset, skip, icount, istart, iend, irow, fieldNamesDict,
          _plotTypeList, plot, scanReads, reads, processed, lastCall>>

(* ------------------------------ bounds -------------------------------- *)

\* largest dimensionality of the restart files that are generated
MaxDim == 2
\* largest number of records of the restart files that are generated
MaxCount == 2

(* --------------------------- tokens and text -------------------------- *)

None == <<>>
Some(x) == <<x>>

creturn == "\\r"
newline == "\\n"
paradram == "ParaDRAM"

\* the ParaDRAM field names
PropNames == << "meanAcceptanceRateSinceStart", "sampleSize", "logSqrtDeterminant",
                "adaptiveScaleFactorSquared", "meanVec", "covMat", "corMat" >>

\* the decimal literals of the values 0..9, literal of v at index v + 1
NumStr == << "0", "1", "2", "3", "4", "5", "6", "7", "8", "9" >>

Range(s) == { s[x] : x \in DOMAIN s }
Min(a, b) == IF a < b THEN a ELSE b

\* str.replace(old, ""): the text without the tokens equal to old
RECURSIVE StrRemove(_, _)
StrRemove(s, old) ==
    IF s = <<>> THEN <<>>
    ELSE (IF Head(s) = old THEN <<>> ELSE <<Head(s)>>) \o StrRemove(Tail(s), old)

\* str.split(sep): the pieces between the separators, left to right; a text
\* without separator is one piece, a trailing separator leaves an empty piece
RECURSIVE StrSplit(_, _)
StrSplit(s, sep) ==
    IF \A x \in DOMAIN s : s[x] # sep THEN << s >>
    ELSE LET p == CHOOSE x \in DOMAIN s : s[x] = sep /\ \A y \in 1..(x-1) : s[y] # sep
         IN  << SubSeq(s, 1, p - 1) >> \o StrSplit(SubSeq(s, p + 1, Len(s)), sep)

\* str.count(sub): the occurrences of sub, counted left to right
RECURSIVE StrCount(_, _)
StrCount(s, sub) ==
    IF s = <<>> THEN 0
    ELSE (IF Head(s) = sub THEN 1 ELSE 0) + StrCount(Tail(s), sub)

\* sub in line
Contains(line, sub) == \E x \in DOMAIN line : line[x] = sub

\* pm.utils.isNumericString(line): the line is one decimal literal
isNumericString(line) == Len(line) = 1 /\ line[1] \in Range(NumStr)

\* np.double(line) of a line that is a decimal literal
Double(line) == (CHOOSE v \in DOMAIN NumStr : NumStr[v] = line[1]) - 1

\* lineList[lo:hi] of Python, for 0 <= lo: indices lo .. min(hi, len) - 1
Slice(lineList, lo, hi) == SubSeq(lineList, lo + 1, Min(hi, Len(lineList)))

(* ------------------------- the restart files -------------------------- *)

Tri(d) == (d * (d + 1)) \div 2

\* the lines of record k of a restart file of dimensionality d, as the
\* sampler writes them: each label on a line followed by its values, one
\* value per line
RecordLines(d, k) ==
    LET val(v) == << NumStr[(v % 9) + 2] >>
    IN  << <<PropNames[1]>>, val(k), <<PropNames[2]>>, val(k + 3),
           <<PropNames[3]>>, val(k + 5), <<PropNames[4]>>, val(k + 7),
           <<PropNames[5]>> >>
        \o [ j \in 1..d |-> val(2 * k + j) ]
        \o << <<PropNames[6]>> >>
        \o [ t \in 1..Tri(d) |-> val(4 * k + 2 * t + 1) ]

RECURSIVE FileLines(_, _)
FileLines(d, n) == IF n = 0 THEN <<>> ELSE FileLines(d, n - 1) \o RecordLines(d, n - 1)

\* the text of the lines, each line ended by eol when closed, otherwise the
\* lines joined by eol
RECURSIVE Join(_, _, _)
Join(lines, eol, closed) ==
    IF lines = <<>> THEN <<>>
    ELSE IF Len(lines) = 1 THEN lines[1] \o (IF closed THEN eol ELSE <<>>)
    ELSE lines[1] \o eol \o Join(Tail(lines), eol, closed)

Eols == { <<newline>>, <<creturn, newline>> }

\* the lines that replace one line of a damaged file
Damage == { <<>>, <<"junk">>, <<"7">>, <<PropNames[5]>>, <<PropNames[1]>>,
            <<PropNames[1], PropNames[1]>> }

\* the files: complete restart files, files cut after their first t lines,
\* and files with one line replaced
Files ==
    UNION { LET lines == FileLines(d, n) IN
              { Join(lines, eol, TRUE) : eol \in Eols }
              \cup { Join(SubSeq(lines, 1, t), eol, FALSE) : t \in 0..Len(lines), eol \in Eols }
              \cup { Join([lines EXCEPT ![p] = g], eol, TRUE) :
                         p \in 1..Len(lines), g \in Damage, eol \in Eols }
          : d \in 1..MaxDim, n \in 1..MaxCount }

MethodNames == { paradram, "ParaDISE" }


(* ------------------------- geometry and arrays ------------------------ *)

\* the number of lines of one record
Skip(d) == 10 + (d * (d + 3)) \div 2

\* the first scalar of record k without the line of the file label
RecordStart_noHeader(k, sk) == k * sk

\* the line of the first scalar of record k
RecordStart(k, sk) == k * sk + 1

\* the covariance values without the line of their label
CovStart_noLabel(meanEnd) == meanEnd

\* the line of the first covariance value, from the end of the mean vector
CovStart(meanEnd) == meanEnd + 1

ScalarNames == { PropNames[x] : x \in 1..4 }

\* an entry of a correlation matrix: the value num / sqrt(den2)
CorZero == [ num |-> 0, den2 |-> 1 ]

\* np.zeros for the seven fields
Zeros(n, d) ==
    [ name \in Range(PropNames) |->
        IF name \in ScalarNames THEN [ k \in 0..(n-1) |-> 0 ]
        ELSE IF name = PropNames[5] THEN [ k \in 0..(n-1) |-> [ j \in 0..(d-1) |-> 0 ] ]
        ELSE IF name = PropNames[6]
             THEN [ k \in 0..(n-1) |-> [ r \in 0..(d-1) |-> [ c \in 0..(d-1) |-> 0 ] ] ]
        ELSE [ k \in 0..(n-1) |-> [ r \in 0..(d-1) |-> [ c \in 0..(d-1) |-> CorZero ] ] ] ]

\* every line of the slice is a decimal literal
AllNumeric(lines) == \A x \in DOMAIN lines : isNumericString(lines[x])

\* numpy assigns an array of m values to a slice of len places when m = len,
\* and repeats a single value over the slice
CanAssign(m, len) == m = len \/ m = 1

\* the values a slice of len places receives from the lines
Broadcast(lines, len) ==
    [ j \in 0..(len-1) |-> IF Len(lines) = 1 THEN Double(lines[1]) ELSE Double(lines[j+1]) ]

\* covMat[icount, i, 0:i+1] = vals
WriteRow(mat, i, vals) ==
    [ mat EXCEPT ![i] = [ c \in DOMAIN mat[i] |-> IF c <= i THEN vals[c] ELSE mat[i][c] ] ]

\* the row without its mirror
MirrorRow_none(mat, i) == mat

\* covMat[icount, 0:i+1, i] = covMat[icount, i, 0:i+1]
MirrorRow(mat, i) ==
    [ r \in DOMAIN mat |-> [ c \in DOMAIN mat[r] |->
        IF c = i /\ r <= i THEN mat[i][r] ELSE mat[r][c] ] ]

\* ccm.getCorFromCov: entry (r, c) is cov[r][c] / sqrt(cov[r][r] * cov[c][c])
getCorFromCov(cov) ==
    [ r \in DOMAIN cov |-> [ c \in DOMAIN cov |->
        [ num |-> cov[r][c], den2 |-> cov[r][r] * cov[c][c] ] ] ]

\* a range that is one index short
InRange_short(k, n) == k + 1 < n

\* a range of one index at most
InRange_one(k, n) == k < n /\ k < 1

\* range(count) has a next index after icount
InRange(k, n) == k < n

(* ------------------------------- state -------------------------------- *)

\* the object after the attribute initialisation of __init__
Init ==
    /\ file \in Files
    /\ methodName \in MethodNames
    /\ pc = "init"
    /\ outcome = "none"
    /\ ndim = None /\ count = None /\ contents = None /\ df = None
    /\ _contents = <<>> /\ _lineList = <<>> /\ _lineListLen = 0
    /\ propNameList = <<>>
    /\ rowOffset = 0 /\ skip = 0 /\ icount = 0 /\ istart = 0 /\ iend = 0 /\ irow = 0
    /\ fieldNamesDict = None
    /\ _plotTypeList = <<>> /\ plot = None
    /\ scanReads = {} /\ reads = {} /\ processed = <<>>
    /\ lastCall = None

\* the control flow leaves the method with an exception or an abort
Raise(kind) == pc' = "failed" /\ outcome' = kind

\* every method is taken for ParaDRAM
IsParaDRAM_any(name) == TRUE

\* the method called for the sampler
IsParaDRAM(name) == name = paradram

\* __init__: the choice of the reader
Dispatch ==
    /\ pc = "init"
    /\ IF IsParaDRAM(methodName) THEN pc' = "read" /\ outcome' = outcome
       ELSE Raise("UnsupportedMethod")
    /\ UNCHANGED <<file, methodName, ndim, count, contents, df, _contents, _lineList,
                   _lineListLen, propNameList, rowOffset, skip, icount, istart, iend,
                   irow, fieldNamesDict, _plotTypeList, plot, scanReads, reads, processed, lastCall>>

\* _readRestartParaDRAM: the text, its lines and the count of updates
ReadFile ==
    /\ pc = "read"
    /\ propNameList' = PropNames
    /\ _contents' = StrRemove(file, creturn)
    /\ _lineList' = StrSplit(_contents', newline)
    /\ _lineListLen' = Len(_lineList')
    /\ count' = Some(StrCount(_contents', PropNames[1]))
    /\ rowOffset' = 0
    /\ pc' = "scan"
    /\ UNCHANGED <<file, methodName, outcome, ndim, contents, df, skip, icount, istart,
                   iend, irow, fieldNamesDict, _plotTypeList, plot, scanReads, reads,
                   processed, lastCall>>

\* the scan has left the lines: rowOffset > self._lineListLen
ScanPastEnd(off, len) == off > len

\* the scan of the label starts at the line of the label
FirstValue_atLabel(off) == off

\* the line of the first numeric value of the meanVec, from the line of its label
FirstValue(off) == off + 1

\* one evaluation of the condition of the scan for the meanVec label, and the
\* body of the loop when the line does not hold the label
ScanStep ==
    /\ pc = "scan"
    /\ scanReads' = scanReads \cup { rowOffset }
    /\ IF rowOffset >= Len(_lineList)
       THEN Raise("IndexError") /\ UNCHANGED <<rowOffset, ndim>>
       ELSE IF Contains(_lineList[rowOffset + 1], propNameList[5])
       THEN /\ rowOffset' = FirstValue(rowOffset)
            /\ ndim' = Some(0)
            /\ pc' = "dim" /\ outcome' = outcome
       ELSE /\ rowOffset' = rowOffset + 1
            /\ UNCHANGED ndim
            /\ IF ScanPastEnd(rowOffset', _lineListLen) THEN Raise("CorruptFile")
               ELSE pc' = "scan" /\ outcome' = outcome
    /\ UNCHANGED <<file, methodName, count, contents, df, _contents, _lineList,
                   _lineListLen, propNameList, skip, icount, istart, iend, irow,
                   fieldNamesDict, _plotTypeList, plot, reads, processed, lastCall>>

\* one evaluation of the condition of the count of the numeric lines; when
\* the line is not numeric, the test of ndim, the arrays and the geometry
DimStep ==
    /\ pc = "dim"
    /\ LET d == ndim[1] IN
       IF rowOffset + d >= Len(_lineList)
       THEN Raise("IndexError") /\ UNCHANGED <<ndim, fieldNamesDict, skip, icount>>
       ELSE IF isNumericString(_lineList[rowOffset + d + 1])
       THEN /\ ndim' = Some(d + 1)
            /\ pc' = "dim" /\ outcome' = outcome
            /\ UNCHANGED <<fieldNamesDict, skip, icount>>
       ELSE IF d = 0
       THEN Raise("CorruptFile") /\ UNCHANGED <<ndim, fieldNamesDict, skip, icount>>
       ELSE /\ fieldNamesDict' = Some(Zeros(count[1], d))
            /\ skip' = Skip(d)
            /\ icount' = 0
            /\ pc' = "loop" /\ outcome' = outcome
            /\ UNCHANGED ndim
    /\ UNCHANGED <<file, methodName, count, contents, df, _contents, _lineList,
                   _lineListLen, propNameList, rowOffset, istart, iend, irow,
                   _plotTypeList, plot, scanReads, reads, processed, lastCall>>

\* the head of the loop over the records; the update of the progress bar
\* changes no attribute of the object
Loop ==
    /\ pc = "loop"
    /\ IF InRange(icount, count[1])
       THEN /\ istart' = RecordStart(icount, skip)
            /\ rowOffset' = 0
            /\ pc' = "scalar"
       ELSE /\ pc' = "publish"
            /\ UNCHANGED <<istart, rowOffset>>
    /\ UNCHANGED <<file, methodName, outcome, ndim, count, contents, df, _contents,
                   _lineList, _lineListLen, propNameList, skip, icount, iend, irow,
                   fieldNamesDict, _plotTypeList, plot, scanReads, reads, processed, lastCall>>

\* the field of the scalar read at the offset
ScalarField(off) == PropNames[(off \div 2) + 1]

\* one of the four scalars of the record, at rowOffset 0, 2, 4, 6
ReadScalar ==
    /\ pc = "scalar"
    /\ LET idx  == istart + rowOffset
           name == ScalarField(rowOffset)
       IN
       /\ reads' = reads \cup { [ k |-> icount, field |-> name, row |-> 0,
                                  lo |-> idx, hi |-> idx + 1 ] }
       /\ IF idx >= Len(_lineList)
          THEN Raise("IndexError") /\ UNCHANGED <<fieldNamesDict, rowOffset>>
          ELSE IF ~ isNumericString(_lineList[idx + 1])
          THEN Raise("ValueError") /\ UNCHANGED <<fieldNamesDict, rowOffset>>
          ELSE /\ fieldNamesDict' =
                     Some([ fieldNamesDict[1] EXCEPT ![name][icount] = Double(_lineList[idx + 1]) ])
               /\ rowOffset' = rowOffset + 2
               /\ pc' = IF rowOffset' = 8 THEN "meanVec" ELSE "scalar"
               /\ outcome' = outcome
    /\ UNCHANGED <<file, methodName, ndim, count, contents, df, _contents, _lineList,
                   _lineListLen, propNameList, skip, icount, istart, iend, irow,
                   _plotTypeList, plot, scanReads, processed, lastCall>>

\* the mean vector of the record, and the step to the covariance values
ReadMeanVec ==
    /\ pc = "meanVec"
    /\ LET d    == ndim[1]
           lo   == istart + rowOffset
           hi   == istart + rowOffset + d
           vals == Slice(_lineList, lo, hi)
       IN
       /\ reads' = reads \cup { [ k |-> icount, field |-> PropNames[5], row |-> 0,
                                  lo |-> lo, hi |-> hi ] }
       /\ IF ~ AllNumeric(vals) \/ ~ CanAssign(Len(vals), d)
          THEN Raise("ValueError") /\ iend' = hi /\ UNCHANGED <<fieldNamesDict, irow>>
          ELSE /\ fieldNamesDict' =
                     Some([ fieldNamesDict[1] EXCEPT ![PropNames[5]][icount] = Broadcast(vals, d) ])
               /\ iend' = CovStart(hi)
               /\ irow' = 0
               /\ pc' = "covMat" /\ outcome' = outcome
    /\ UNCHANGED <<file, methodName, ndim, count, contents, df, _contents, _lineList,
                   _lineListLen, propNameList, rowOffset, skip, icount, istart,
                   _plotTypeList, plot, scanReads, processed, lastCall>>

\* row irow of the lower triangle of the covariance matrix and its mirror
ReadCovRow ==
    /\ pc = "covMat"
    /\ LET iPlusOne == irow + 1
           lo   == iend
           hi   == iend + iPlusOne
           vals == Slice(_lineList, lo, hi)
       IN
       /\ istart' = lo
       /\ iend' = hi
       /\ reads' = reads \cup { [ k |-> icount, field |-> PropNames[6], row |-> irow,
                                  lo |-> lo, hi |-> hi ] }
       /\ IF ~ AllNumeric(vals) \/ ~ CanAssign(Len(vals), iPlusOne)
          THEN Raise("ValueError") /\ UNCHANGED <<fieldNamesDict, irow>>
          ELSE /\ fieldNamesDict' =
                     Some([ fieldNamesDict[1] EXCEPT ![PropNames[6]][icount] =
                              MirrorRow(WriteRow(@, irow, Broadcast(vals, iPlusOne)), irow) ])
               /\ irow' = irow + 1
               /\ pc' = IF irow' < ndim[1] THEN "covMat" ELSE "corMat"
               /\ outcome' = outcome
    /\ UNCHANGED <<file, methodName, ndim, count, contents, df, _contents, _lineList,
                   _lineListLen, propNameList, rowOffset, skip, icount,
                   _plotTypeList, plot, scanReads, processed, lastCall>>

\* the correlation matrix of the record; the record is decoded
DeriveCorMat ==
    /\ pc = "corMat"
    /\ fieldNamesDict' =
          Some([ fieldNamesDict[1] EXCEPT ![PropNames[7]][icount] =
                   getCorFromCov(fieldNamesDict[1][PropNames[6]][icount]) ])
    /\ processed' = Append(processed, icount)
    /\ icount' = icount + 1
    /\ pc' = "loop"
    /\ UNCHANGED <<file, methodName, outcome, ndim, count, contents, df, _contents,
                   _lineList, _lineListLen, propNameList, rowOffset, skip, istart, iend,
                   irow, _plotTypeList, plot, scanReads, reads, lastCall>>

\* the data frame of the fields that are left after meanVec, covMat and corMat
\* are popped
DataFrame(dict) == [ name \in ScalarNames |-> dict[name] ]

\* the decoded fields become the contents of the object; meanVec, covMat and
\* corMat are popped from the dictionary and the rest becomes the data frame
Publish ==
    /\ pc = "publish"
    /\ contents' = Some(fieldNamesDict[1])
    /\ fieldNamesDict' = Some(DataFrame(fieldNamesDict[1]))
    /\ df' = Some(fieldNamesDict'[1])
    /\ pc' = "graphics"
    /\ UNCHANGED <<file, methodName, outcome, ndim, count, _contents, _lineList,
                   _lineListLen, propNameList, rowOffset, skip, icount, istart, iend,
                   irow, _plotTypeList, plot, scanReads, reads, processed, lastCall>>

(* ------------------------------ graphics ------------------------------ *)

\* the names of the plots of an object of dimensionality d
PlotTypeList(d) ==
    << "line", "scatter", "lineScatter" >>
    \o (IF d > 1 THEN << "covmat2", "covmat3", "cormat2", "cormat3" >> ELSE <<>>)

\* str.lower() of the names that occur
Lower(name) ==
    CASE name = "lineScatter" -> "linescatter"
      [] name \in { "All", "ALL" } -> "all"
      [] name = "Hard" -> "hard"
      [] OTHER -> name

\* sub in name, for the lower-case names that occur
In(sub, name) ==
    \/ sub = "line"    /\ name \in { "line", "linescatter" }
    \/ sub = "scatter" /\ name \in { "scatter", "linescatter" }
    \/ sub = "covmat"  /\ name \in { "covmat2", "covmat3" }
    \/ sub = "cormat"  /\ name \in { "cormat2", "cormat3" }

\* a plot object as its constructor and the settings of the reset leave it
NewPlot(name) ==
    LET lower == Lower(name) IN
    IF In("line", lower) \/ In("scatter", lower)
    THEN [ cls |-> "LineScatterPlot", plotType |-> name, data |-> "df",
           ycolumns |-> PropNames[1], touched |-> FALSE ]
    ELSE [ cls |-> "EllipsoidPlot", plotType |-> name,
           data |-> IF In("cormat", lower) THEN "corMat" ELSE "covMat",
           ycolumns |-> "", touched |-> FALSE ]

\* the arguments of reset: a string, a list of strings or another object
StrArg(v) == [ type |-> "str", val |-> <<v>> ]
ListArg(v) == [ type |-> "list", val |-> v ]
OtherArg == [ type |-> "other", val |-> <<>> ]

ResetTypes == { StrArg("hard"), StrArg("soft"), OtherArg }
PlotNameArgs == { StrArg("all"), StrArg("All"), StrArg("covmat2"), StrArg("bogus"),
                  ListArg(<<"covmat2", "covmat3">>), ListArg(<<"line", "bogus">>),
                  OtherArg }

\* _resetPlot reports a wrong plot name
WrongPlotName(plotNames, valid) ==
    CASE plotNames.type = "str" ->
             Lower(plotNames.val[1]) # "all" /\ plotNames.val[1] \notin Range(valid)
      [] plotNames.type = "list" -> \E x \in DOMAIN plotNames.val : plotNames.val[x] \notin Range(valid)
      [] OTHER -> TRUE

\* requestedPlotTypeList of _resetPlot when no plot name is wrong
RequestedPlotTypeList(plotNames, valid) ==
    IF plotNames.type = "str"
    THEN IF Lower(plotNames.val[1]) = "all" THEN valid ELSE << plotNames.val[1] >>
    ELSE <<>>

\* the plot attributes after the loop over the requested plot types
Regenerate(plotStruct, requested) ==
    [ name \in (DOMAIN plotStruct) \cup Range(requested) |->
        IF name \in Range(requested) THEN NewPlot(name) ELSE plotStruct[name] ]

\* _readRestartParaDRAM: the plot types, the plot structure and its first reset
Graphics ==
    /\ pc = "graphics"
    /\ _plotTypeList' = PlotTypeList(ndim[1])
    /\ plot' = Regenerate(<<>>, RequestedPlotTypeList(StrArg("all"), _plotTypeList'))
    /\ pc' = "done"
    /\ UNCHANGED <<file, methodName, outcome, ndim, count, contents, df, _contents,
                   _lineList, _lineListLen, propNameList, rowOffset, skip, icount, istart,
                   iend, irow, fieldNamesDict, scanReads, reads, processed, lastCall>>

\* the plots whose attributes the user changes
ModifiedPlots == { "line", "covmat2" }

\* the user changes attributes of a plot of the object
ModifyPlot(name) ==
    /\ pc = "done"
    /\ name \in DOMAIN plot
    /\ ~ plot[name].touched
    /\ plot' = [ plot EXCEPT ![name].touched = TRUE ]
    /\ lastCall' = None
    /\ UNCHANGED <<file, methodName, pc, outcome, ndim, count, contents, df, _contents,
                   _lineList, _lineListLen, propNameList, rowOffset, skip, icount, istart,
                   iend, irow, fieldNamesDict, _plotTypeList, scanReads, reads, processed>>

\* plot.reset(resetType, plotNames)
ResetPlot(resetType, plotNames) ==
    /\ pc = "done"
    /\ lastCall' = Some([ resetType |-> resetType, plotNames |-> plotNames ])
    /\ IF WrongPlotName(plotNames, _plotTypeList)
       THEN outcome' = "WrongPlotName" /\ UNCHANGED plot
       ELSE IF resetType.type # "str"
       THEN outcome' = "abort" /\ UNCHANGED plot
       ELSE /\ outcome' = "none"
            /\ plot' = Regenerate(plot, RequestedPlotTypeList(plotNames, _plotTypeList))
    /\ UNCHANGED <<file, methodName, pc, ndim, count, contents, df, _contents,
                   _lineList, _lineListLen, propNameList, rowOffset, skip, icount, istart,
                   iend, irow, fieldNamesDict, _plotTypeList, scanReads, reads, processed>>

Next ==
    \/ Dispatch
    \/ ReadFile
    \/ ScanStep
    \/ DimStep
    \/ Loop
    \/ ReadScalar
    \/ ReadMeanVec
    \/ ReadCovRow
    \/ DeriveCorMat
    \/ Publish
    \/ Graphics
    \/ \E name \in ModifiedPlots : ModifyPlot(name)
    \/ \E resetType \in ResetTypes, plotNames \in PlotNameArgs : ResetPlot(resetType, plotNames)

Spec == Init /\ [][Next]_vars

(* ------------------------------- claims ------------------------------- *)

\* the decode has published its result
Published == pc \in { "graphics", "done" }

\* the geometry is known and the lines are fewer than count records need
Truncated == count # None /\ skip > 0 /\ _lineListLen < count[1] * skip

\* the lines are split and none holds the meanVec label
NoMarker ==
    /\ pc \notin { "init", "read" }
    /\ methodName = paradram
    /\ \A x \in DOMAIN _lineList : ~ Contains(_lineList[x], PropNames[5])

\* C1: a file with fewer lines than its counted records need ends in the
\* CorruptFile report: it ends in no other error and publishes no contents.
C1_TruncatedEndsInCorruptFile ==
    Truncated => /\ (pc = "failed" => outcome = "CorruptFile")
                 /\ ~ Published

\* C2: the scan for the meanVec label reads no index at or past the number of
\* lines, and a file without the label ends in the CorruptFile report.
C2_ScanStaysInBounds ==
    /\ (pc \notin { "init", "read" } => \A x \in scanReads : x < _lineListLen)
    /\ (NoMarker /\ pc = "failed" => outcome = "CorruptFile")

\* the arrays of the seven fields: the dictionary of the decode and, once
\* published, the contents
Decoded == IF contents # None THEN contents[1] ELSE fieldNamesDict[1]

\* the row loop of record k has finished
RowsDone(k) == k < icount \/ (k = icount /\ pc = "corMat")

\* C3: once the row loop of a record has finished, its covariance matrix
\* equals its transpose, entry by entry.
C3_CovMatSymmetric ==
    fieldNamesDict # None =>
        \A k \in 0..(count[1] - 1) : RowsDone(k) =>
            LET cov == Decoded[PropNames[6]][k] IN
            \A r \in DOMAIN cov : \A c \in DOMAIN cov : cov[r][c] = cov[c][r]

\* a record is decoded from a complete file of dimensionality 2 and its
\* matrix has an off-diagonal value that differs from the diagonal
C3_Witness ==
    /\ Published /\ ndim = Some(2) /\ count[1] >= 1
    /\ LET cov == contents[1][PropNames[6]][0] IN
       cov[0][1] # 0 /\ cov[1][0] = cov[0][1] /\ cov[0][1] # cov[0][0] /\ cov[0][1] # cov[1][1]

\* the reads of record k when the first covariance value is covOff lines
\* after the start of the record
ExpectedReads(k, d, sk, covOff) ==
    LET s == k * sk + 1 IN
    { [ k |-> k, field |-> PropNames[f], row |-> 0, lo |-> s + 2 * (f - 1),
        hi |-> s + 2 * (f - 1) + 1 ] : f \in 1..4 }
    \cup { [ k |-> k, field |-> PropNames[5], row |-> 0, lo |-> s + 8, hi |-> s + 8 + d ] }
    \cup { [ k |-> k, field |-> PropNames[6], row |-> i,
             lo |-> s + covOff + ((i * (i + 1)) \div 2),
             hi |-> s + covOff + ((i * (i + 1)) \div 2) + i + 1 ] : i \in 0..(d - 1) }

\* the values of a decoded record are the values of the lines of its reads,
\* where the lines exist
ValuesFromLines(k, d, sk, covOff) ==
    LET s == k * sk + 1
        dict == Decoded
        line(x) == _lineList[x + 1]
    IN
    /\ \A f \in 1..4 : dict[PropNames[f]][k] = Double(line(s + 2 * (f - 1)))
    /\ s + 8 + d <= _lineListLen =>
           \A j \in 0..(d - 1) : dict[PropNames[5]][k][j] = Double(line(s + 8 + j))
    /\ \A i \in 0..(d - 1) :
           LET lo == s + covOff + ((i * (i + 1)) \div 2) IN
           lo + i + 1 <= _lineListLen =>
               \A j \in 0..i : dict[PropNames[6]][k][i][j] = Double(line(lo + j))

\* C4 as stated: the covariance values begin immediately after the mean
\* vector, the first at line s + 8 + d.
C4_CovStartsAfterMeanVec ==
    fieldNamesDict # None =>
        /\ \A r \in reads : r \in ExpectedReads(r.k, ndim[1], skip, 8 + ndim[1])
        /\ \A k \in 0..(icount - 1) :
              { r \in reads : r.k = k } = ExpectedReads(k, ndim[1], skip, 8 + ndim[1])

\* C4 amended: record k reads its scalars at s, s+2, s+4, s+6, its mean
\* vector at s+8 .. s+8+d-1 and row i of its covariance values at the i+1
\* lines from s + 9 + d + i(i+1)/2: line s+8+d is skipped.
C4_CovStartsOneLineAfterMeanVec ==
    fieldNamesDict # None =>
        /\ \A r \in reads : r \in ExpectedReads(r.k, ndim[1], skip, 9 + ndim[1])
        /\ \A k \in 0..(icount - 1) :
              /\ { r \in reads : r.k = k } = ExpectedReads(k, ndim[1], skip, 9 + ndim[1])
              /\ ValuesFromLines(k, ndim[1], skip, 9 + ndim[1])

\* two records of dimensionality 2 are decoded from lines that all exist
C4_Witness ==
    /\ Published /\ ndim = Some(2) /\ icount = 2
    /\ _lineListLen >= 2 * skip
    /\ contents[1][PropNames[6]][1][1][0] = Double(_lineList[2 * skip - 1])

\* the occurrences of sub in the text
Occurrences(text, sub) == Cardinality({ x \in DOMAIN text : text[x] = sub })

\* C5: count is the number of occurrences of the first label in the text
\* without carriage returns; a published decode has processed the records
\* 0 .. count-1 once each in increasing order, and every field of contents
\* and every column of df has count entries.
C5_CountConsistency ==
    /\ count # None =>
          count[1] = Occurrences(SelectSeq(file, LAMBDA t : t # creturn), PropNames[1])
    /\ Published =>
          /\ processed = [ x \in 1..count[1] |-> x - 1 ]
          /\ \A x \in DOMAIN PropNames : DOMAIN contents[1][PropNames[x]] = 0..(count[1] - 1)
          /\ \A name \in DOMAIN df[1] : DOMAIN df[1][name] = 0..(count[1] - 1)

\* a decode of two records is published
C5_Witness ==
    /\ Published /\ count = Some(2) /\ processed = << 0, 1 >>
    /\ DOMAIN df[1][PropNames[2]] = { 0, 1 }

\* C6: no contents are published with dimensionality 0 or with count 0, and a
\* decode that ends with no numeric line after the meanVec label ends in the
\* CorruptFile report.
C6_NoEmptyDecode ==
    /\ (contents # None => ndim[1] >= 1 /\ count[1] >= 1)
    /\ (pc = "failed" /\ ndim = Some(0) => outcome = "CorruptFile")

\* C7: contents and df are set together and only when every record is
\* decoded; after a failure of the decode both are None.
C7_NoPartialResults ==
    /\ (contents # None \/ df # None) =>
          /\ contents # None /\ df # None
          /\ Published
          /\ icount = count[1]
          /\ Range(processed) = 0..(count[1] - 1)
          /\ df[1] = DataFrame(contents[1])
    /\ ~ Published => contents = None /\ df = None

\* the decode fails after a record is decoded and nothing is published
C7_Witness ==
    /\ pc = "failed" /\ icount >= 1 /\ icount < count[1]
    /\ contents = None /\ df = None

\* C8: every line read for record k lies in k*skip+1 .. (k+1)*skip with
\* skip = 10 + d(d+3)/2, so the reads of two records share no line and line 0
\* is not read.
C8_ReadsInsideRecord ==
    /\ skip > 0 => 2 * skip = 20 + ndim[1] * (ndim[1] + 3)
    /\ \A r \in reads :
          /\ r.lo < r.hi
          /\ r.k * skip + 1 <= r.lo /\ r.hi - 1 <= (r.k + 1) * skip
          /\ r.lo >= 1
    /\ \A r1 \in reads : \A r2 \in reads :
          r1.k # r2.k => (r1.hi <= r2.lo \/ r2.hi <= r1.lo)

\* the last row of record 0 and the first scalar of record 1 are read
C8_Witness ==
    /\ ndim = Some(2)
    /\ \E r1 \in reads : \E r2 \in reads :
          /\ r1.k = 0 /\ r1.field = PropNames[6] /\ r1.row = 1 /\ r1.hi = skip
          /\ r2.k = 1 /\ r2.field = PropNames[1] /\ r2.lo = skip + 1

\* C9: after reset("hard", ["covmat2", "covmat3"]) on an object with decoded
\* records that has these plots, covmat2 and covmat3 are freshly constructed
\* plot objects.
C9_ResetListRegenerates ==
    LET names == << "covmat2", "covmat3" >> IN
    ( /\ lastCall = Some([ resetType |-> StrArg("hard"), plotNames |-> ListArg(names) ])
      /\ Range(names) \subseteq Range(_plotTypeList)
      /\ count[1] >= 1 )
    => \A x \in DOMAIN names : plot[names[x]] = NewPlot(names[x])

FirstMarker ==
    CHOOSE x \in 0..(Len(_lineList) - 1) :
        /\ Contains(_lineList[x + 1], PropNames[5])
        /\ \A y \in 0..(x - 1) : ~ Contains(_lineList[y + 1], PropNames[5])

\* the number of consecutive numeric lines from the line of index from
RECURSIVE NumericRun(_)
NumericRun(from) ==
    IF from < Len(_lineList) /\ isNumericString(_lineList[from + 1])
    THEN 1 + NumericRun(from + 1)
    ELSE 0

\* C11: the count of the dimensionality starts at the line after the first
\* line that holds the meanVec label; once the geometry is set, ndim is the
\* number of consecutive numeric lines from there, whatever follows a later
\* label, and skip and the reads of every record use this ndim.
C11_DimIsNumericRunAfterFirstMarker ==
    /\ pc = "dim" => /\ rowOffset = FirstMarker + 1
                     /\ ndim[1] <= NumericRun(rowOffset)
    /\ skip > 0 =>
          /\ ndim[1] = NumericRun(FirstMarker + 1)
          /\ ndim[1] >= 1
          /\ 2 * skip = 20 + ndim[1] * (ndim[1] + 3)
          /\ \A r \in reads :
                /\ r.field = PropNames[5] => r.hi - r.lo = ndim[1]
                /\ r.field = PropNames[6] => r.row < ndim[1]

\* the geometry is set from the first of two labels that are followed by
\* different numbers of numeric lines, and a record is being read with it
C11_Witness ==
    /\ skip > 0 /\ reads # {}
    /\ \E x \in 0..(Len(_lineList) - 1) :
          /\ x > FirstMarker
          /\ Contains(_lineList[x + 1], PropNames[5])
          /\ NumericRun(x + 1) # NumericRun(FirstMarker + 1)
          /\ NumericRun(x + 1) >= 1
    /\ ndim[1] = NumericRun(FirstMarker + 1)

====
